---- MODULE Spec2Model ----
(***************************************************************************)
(* Universal AI API proxy (src/src/index.ts): the Claude handler           *)
(* (POST /v1/messages), the Gemini handler (POST generateContent) and the  *)
(* translators they call, as one state machine handling one request at a   *)
(* time.                                                                   *)
(*                                                                         *)
(* JavaScript values are tagged tuples: <<"undefined">>, <<"null">>,       *)
(* <<"NaN">>, <<"number", n>>, <<"string", s>>, <<"boolean", b>>,          *)
(* <<"array", seq>>, <<"object", x>> (x: a sequence of <<key, value>>      *)
(* entries for a JSON object, a record for a typed interface).  Strings    *)
(* are TLA+ strings.                                                       *)
(***************************************************************************)
EXTENDS Integers, Sequences, FiniteSets, TLC

VARIABLES
    env,          \* c.env: the Env bindings of the worker
    pc,           \* position of the handler
    path,         \* which route is being served: "claude" | "gemini"
    headers,      \* c.req.header(...): Authorization and the alternate header
    body,         \* the raw request body: what `await c.req.json()` yields
    random,       \* the values the next Math.random() calls return
    apiKey,       \* const apiKey
    provider,     \* const provider
    targetConfig, \* const targetConfig
    upstream,     \* the argument of client.chat.completions.create
    completion,   \* what the upstream call returned
    response,     \* what the handler returned through c.json
    calls         \* the translators and upstream calls invoked so far

vars == <<env, pc, path, headers, body, random, apiKey, provider, targetConfig,
          upstream, completion, response, calls>>

----------------------------------------------------------------------------
(* JavaScript values *)

UNDEF == <<"undefined">>
NULL == <<"null">>
NaN == <<"NaN">>
Str(s) == <<"string", s>>
Num(n) == <<"number", n>>
Bool(b) == <<"boolean", b>>
Arr(a) == <<"array", a>>
Obj(o) == <<"object", o>>

TypeOf(v) == v[1]

\* ToBoolean: the test of `if (v)`, `!v` and `a || b`
Truthy(v) ==
    CASE TypeOf(v) = "undefined" -> FALSE
      [] TypeOf(v) = "null" -> FALSE
      [] TypeOf(v) = "NaN" -> FALSE
      [] TypeOf(v) = "string" -> v[2] # ""
      [] TypeOf(v) = "number" -> v[2] # 0
      [] TypeOf(v) = "boolean" -> v[2]
      [] OTHER -> TRUE

\* o.f for an optional property f of the record o
Prop(o, f) == IF f \in DOMAIN o THEN o[f] ELSE UNDEF

\* a || b
Or(a, b) == IF Truthy(a) THEN a ELSE b

\* Math.min(a, b): NaN when either argument is NaN
MathMin(a, b) ==
    IF TypeOf(a) # "number" \/ TypeOf(b) # "number" THEN NaN
    ELSE IF a[2] <= b[2] THEN a ELSE b

----------------------------------------------------------------------------
(* Strings *)

\* s.charAt(i - 1): "" outside the string
CharAt(s, i) == IF 1 <= i /\ i <= Len(s) THEN SubSeq(s, i, i) ELSE ""

\* s.substring(i - 1, j), clipped to the string
Substring(s, i, j) ==
    IF i > Len(s) \/ j < i THEN "" ELSE SubSeq(s, i, IF j <= Len(s) THEN j ELSE Len(s))

\* String.prototype.startsWith
StartsWith(s, p) == Len(s) >= Len(p) /\ SubSeq(s, 1, Len(p)) = p

\* String.prototype.slice(n), n >= 0
Slice(s, n) == SubSeq(s, n + 1, Len(s))

\* Array.prototype.join
RECURSIVE Join(_, _)
Join(parts, sep) ==
    IF Len(parts) = 0 THEN ""
    ELSE IF Len(parts) = 1 THEN parts[1]
    ELSE parts[1] \o sep \o Join(Tail(parts), sep)

HexDigits == "0123456789abcdef"
HexDigitsUpper == "0123456789ABCDEF"

\* the value of the character c as a digit of the radix, or -1
DigitValue(c, radix) ==
    LET hits == {i \in 1..radix : CharAt(HexDigits, i) = c \/ CharAt(HexDigitsUpper, i) = c}
    IN  IF c = "" \/ hits = {} THEN -1 ELSE (CHOOSE i \in hits : TRUE) - 1

IsWhiteSpace(c) == c \in {" ", "\t", "\n", "\r"}

RECURSIVE SkipWhiteSpace(_, _)
SkipWhiteSpace(s, i) ==
    IF i <= Len(s) /\ IsWhiteSpace(CharAt(s, i)) THEN SkipWhiteSpace(s, i + 1) ELSE i

\* the longest run of digits of the radix at s[i..]: [n: its value, k: its length]
RECURSIVE ReadDigits(_, _, _, _, _)
ReadDigits(s, i, radix, n, k) ==
    IF i <= Len(s) /\ DigitValue(CharAt(s, i), radix) >= 0
    THEN ReadDigits(s, i + 1, radix, n * radix + DigitValue(CharAt(s, i), radix), k + 1)
    ELSE [n |-> n, k |-> k]

\* parseInt(s) with no radix argument
parseInt(s) ==
    LET i0 == SkipWhiteSpace(s, 1)
        neg == i0 <= Len(s) /\ CharAt(s, i0) = "-"
        i1 == IF i0 <= Len(s) /\ CharAt(s, i0) \in {"-", "+"} THEN i0 + 1 ELSE i0
        hex == i1 + 1 <= Len(s) /\ SubSeq(s, i1, i1 + 1) \in {"0x", "0X"}
        d == IF hex THEN ReadDigits(s, i1 + 2, 16, 0, 0) ELSE ReadDigits(s, i1, 10, 0, 0)
    IN  IF d.k = 0 THEN NaN ELSE Num(IF neg THEN 0 - d.n ELSE d.n)

----------------------------------------------------------------------------
(* Configuration and credential *)

getTargetConfig(e) ==
    [ model |-> Or(e.TARGET_MODEL, Str("moonshotai/kimi-k2-instruct")),
      provider |-> Or(e.TARGET_PROVIDER, Str("groq")),
      baseURL |-> Or(e.TARGET_BASE_URL, Str("https://api.groq.com/openai/v1")),
      maxTokens |-> parseInt(Or(e.TARGET_MAX_TOKENS, Str("16384"))[2]) ]

createProvider(e) ==
    LET config == getTargetConfig(e)
    IN  [ name |-> config.provider,
          baseURL |-> config.baseURL,
          models |-> <<config.model>>,
          maxTokens |-> config.maxTokens ]

\* extractApiKey without the "Bearer " branch
extractApiKeyVerbatim(authorization) ==
    IF ~Truthy(authorization) THEN NULL ELSE authorization

extractApiKey(authorization) ==
    IF ~Truthy(authorization) THEN NULL
    ELSE IF StartsWith(authorization[2], "Bearer ") THEN Str(Slice(authorization[2], 7))
    ELSE authorization

----------------------------------------------------------------------------
(* JSON.stringify and JSON.parse, on JSON values with integer numbers.     *)
(* A JSON object is Obj(<<k1, v1>>, <<k2, v2>>, ...), in property order.   *)

RECURSIVE NumberToString(_)
NumberToString(n) ==
    IF n < 0 THEN "-" \o NumberToString(0 - n)
    ELSE IF n < 10 THEN CharAt(HexDigits, n + 1)
    ELSE NumberToString(n \div 10) \o CharAt(HexDigits, (n % 10) + 1)

\* the escapes JSON.stringify writes inside a string literal
EscapeChar(c) ==
    CASE c = "\"" -> "\\\""
      [] c = "\\" -> "\\\\"
      [] c = "\n" -> "\\n"
      [] c = "\r" -> "\\r"
      [] c = "\t" -> "\\t"
      [] OTHER -> c

RECURSIVE EscapeString(_)
EscapeString(s) ==
    IF s = "" THEN "" ELSE EscapeChar(CharAt(s, 1)) \o EscapeString(Slice(s, 1))

QuoteJSONString(s) == "\"" \o EscapeString(s) \o "\""

RECURSIVE SerializeJSONValue(_)
SerializeJSONValue(v) ==
    CASE TypeOf(v) = "null" -> "null"
      [] TypeOf(v) = "NaN" -> "null"
      [] TypeOf(v) = "boolean" -> IF v[2] THEN "true" ELSE "false"
      [] TypeOf(v) = "number" -> NumberToString(v[2])
      [] TypeOf(v) = "string" -> QuoteJSONString(v[2])
      [] TypeOf(v) = "array" ->
            "[" \o Join([i \in 1..Len(v[2]) |-> SerializeJSONValue(v[2][i])], ",") \o "]"
      [] TypeOf(v) = "object" ->
            "{" \o Join([i \in 1..Len(v[2]) |->
                          QuoteJSONString(v[2][i][1]) \o ":" \o SerializeJSONValue(v[2][i][2])],
                        ",") \o "}"

\* JSON.stringify(v): undefined for undefined, the JSON text otherwise
JSONstringify(v) == IF v = UNDEF THEN UNDEF ELSE Str(SerializeJSONValue(v))

\* `${v}` for the values the templates of this program interpolate
TemplateString(v) ==
    CASE TypeOf(v) = "string" -> v[2]
      [] TypeOf(v) = "undefined" -> "undefined"
      [] TypeOf(v) = "null" -> "null"
      [] TypeOf(v) = "NaN" -> "NaN"
      [] TypeOf(v) = "number" -> NumberToString(v[2])
      [] TypeOf(v) = "boolean" -> IF v[2] THEN "true" ELSE "false"
      [] OTHER -> "[object Object]"

ParseFail == [ok |-> FALSE, value |-> UNDEF, next |-> 0]
ParseOk(v, n) == [ok |-> TRUE, value |-> v, next |-> n]

\* the character a backslash escape stands for, "" for an escape not modelled
Unescape(e) ==
    CASE e = "\"" -> "\""
      [] e = "\\" -> "\\"
      [] e = "/" -> "/"
      [] e = "n" -> "\n"
      [] e = "r" -> "\r"
      [] e = "t" -> "\t"
      [] OTHER -> ""

\* the body of a string literal from s[j], its opening quote consumed
RECURSIVE ReadString(_, _, _)
ReadString(s, j, acc) ==
    IF CharAt(s, j) \in {"", "\n", "\r", "\t"} THEN ParseFail
    ELSE IF CharAt(s, j) = "\"" THEN ParseOk(Str(acc), j + 1)
    ELSE IF CharAt(s, j) # "\\" THEN ReadString(s, j + 1, acc \o CharAt(s, j))
    ELSE IF Unescape(CharAt(s, j + 1)) = "" THEN ParseFail
    ELSE ReadString(s, j + 2, acc \o Unescape(CharAt(s, j + 1)))

\* a number whose digits d start at s[j]: none is a syntax error
NumberOf(neg, j, d) ==
    IF d.k = 0 THEN ParseFail ELSE ParseOk(Num(IF neg THEN 0 - d.n ELSE d.n), j + d.k)

\* (0 | [1-9][0-9]*) at s[j]
ReadInteger(s, j, neg) ==
    NumberOf(neg, j, IF CharAt(s, j) = "0" THEN [n |-> 0, k |-> 1] ELSE ReadDigits(s, j, 10, 0, 0))

\* o[k] = v on an object's entries: an existing key keeps its place
SetEntry(entries, k, v) ==
    IF \E i \in 1..Len(entries) : entries[i][1] = k
    THEN [i \in 1..Len(entries) |-> IF entries[i][1] = k THEN <<k, v>> ELSE entries[i]]
    ELSE Append(entries, <<k, v>>)

RECURSIVE ReadValue(_, _), ReadValueAt(_, _, _), ReadElement(_, _, _), ReadMember(_, _, _),
          AfterElement(_, _, _), AfterKey(_, _, _), AfterMember(_, _, _, _)

\* the JSON value at s[i0], after white space
ReadValue(s, i0) == ReadValueAt(s, SkipWhiteSpace(s, i0), SkipWhiteSpace(s, SkipWhiteSpace(s, i0) + 1))

\* the JSON value at s[i]; j is the first position after s[i] that is no white space
ReadValueAt(s, i, j) ==
    CASE CharAt(s, i) = "{" ->
            IF CharAt(s, j) = "}" THEN ParseOk(Obj(<<>>), j + 1) ELSE ReadMember(s, j, <<>>)
      [] CharAt(s, i) = "[" ->
            IF CharAt(s, j) = "]" THEN ParseOk(Arr(<<>>), j + 1) ELSE ReadElement(s, j, <<>>)
      [] CharAt(s, i) = "\"" -> ReadString(s, i + 1, "")
      [] CharAt(s, i) = "-" -> ReadInteger(s, i + 1, TRUE)
      [] DigitValue(CharAt(s, i), 10) >= 0 -> ReadInteger(s, i, FALSE)
      [] Substring(s, i, i + 3) = "true" -> ParseOk(Bool(TRUE), i + 4)
      [] Substring(s, i, i + 4) = "false" -> ParseOk(Bool(FALSE), i + 5)
      [] Substring(s, i, i + 3) = "null" -> ParseOk(NULL, i + 4)
      [] OTHER -> ParseFail

\* one element of an array at s[i], then the rest of the array
ReadElement(s, i, acc) == AfterElement(s, acc, ReadValue(s, i))

\* r is the element read: a comma and the next element, or the closing bracket
AfterElement(s, acc, r) ==
    IF ~r.ok THEN ParseFail
    ELSE IF CharAt(s, SkipWhiteSpace(s, r.next)) = ","
    THEN ReadElement(s, SkipWhiteSpace(s, r.next) + 1, Append(acc, r.value))
    ELSE IF CharAt(s, SkipWhiteSpace(s, r.next)) = "]"
    THEN ParseOk(Arr(Append(acc, r.value)), SkipWhiteSpace(s, r.next) + 1)
    ELSE ParseFail

\* one member of an object at s[i], `"key" : value`, then the rest of the object
ReadMember(s, i, acc) ==
    IF CharAt(s, SkipWhiteSpace(s, i)) # "\"" THEN ParseFail
    ELSE AfterKey(s, acc, ReadString(s, SkipWhiteSpace(s, i) + 1, ""))

\* k is the key read: a colon and the member's value
AfterKey(s, acc, k) ==
    IF ~k.ok \/ CharAt(s, SkipWhiteSpace(s, k.next)) # ":" THEN ParseFail
    ELSE AfterMember(s, acc, k.value[2], ReadValue(s, SkipWhiteSpace(s, k.next) + 1))

\* r is the value read for the key: a comma and the next member, or the closing brace
AfterMember(s, acc, key, r) ==
    IF ~r.ok THEN ParseFail
    ELSE IF CharAt(s, SkipWhiteSpace(s, r.next)) = ","
    THEN ReadMember(s, SkipWhiteSpace(s, r.next) + 1, SetEntry(acc, key, r.value))
    ELSE IF CharAt(s, SkipWhiteSpace(s, r.next)) = "}"
    THEN ParseOk(Obj(SetEntry(acc, key, r.value)), SkipWhiteSpace(s, r.next) + 1)
    ELSE ParseFail

\* r is the value read at the start of s: nothing but white space may follow it
WholeText(s, r) ==
    IF r.ok /\ SkipWhiteSpace(s, r.next) = Len(s) + 1
    THEN [ok |-> TRUE, value |-> r.value]
    ELSE [ok |-> FALSE, value |-> UNDEF]

\* JSON.parse(text): [ok: no SyntaxError was thrown, value: the result]
JSONparse(text) == WholeText(TemplateString(text), ReadValue(TemplateString(text), 1))

----------------------------------------------------------------------------
(* Translators.  A translator that can throw returns [ok, value]: ok is    *)
(* FALSE when the JavaScript throws (a TypeError or a SyntaxError).        *)

\* BlockParts without the tool_result branch
BlockPartsNoToolResult(block) ==
    IF block.type = "text" THEN <<block.text>>
    ELSE IF block.type = "tool_use"
    THEN <<"[Tool Use: " \o block.name \o "] " \o TemplateString(JSONstringify(block.input))>>
    ELSE <<>>

\* the string one Claude block pushes onto `parts`; <<>> for a block that pushes nothing
BlockParts(block) ==
    IF block.type = "text" THEN <<block.text>>
    ELSE IF block.type = "tool_use"
    THEN <<"[Tool Use: " \o block.name \o "] " \o TemplateString(JSONstringify(block.input))>>
    ELSE IF block.type = "tool_result"
    THEN <<"<tool_result>" \o TemplateString(JSONstringify(block.content)) \o "</tool_result>">>
    ELSE <<>>

\* the `for (const block of m.content)` loop: the parts pushed, in order
RECURSIVE FlattenBlocks(_)
FlattenBlocks(blocks) ==
    IF blocks = <<>> THEN <<>>
    ELSE BlockParts(Head(blocks)) \o FlattenBlocks(Tail(blocks))

convertMessage(m) ==
    IF TypeOf(m.content) = "string"
    THEN [role |-> m.role, content |-> m.content]
    ELSE [role |-> m.role, content |-> Str(Join(FlattenBlocks(m.content[2]), "\n"))]

\* messages.map(...): throws when messages is not an array
convertMessages(messages) ==
    IF TypeOf(messages) # "array" THEN [ok |-> FALSE, value |-> <<>>]
    ELSE [ok |-> TRUE,
          value |-> [i \in 1..Len(messages[2]) |-> convertMessage(messages[2][i])]]

convertTools(tools) ==
    [i \in 1..Len(tools) |->
        [type |-> "function",
         function |-> [name |-> tools[i].name,
                       description |-> Or(tools[i].description, Str("")),
                       parameters |-> tools[i].input_schema]]]

RECURSIVE ToolUseBlocksFrom(_, _, _), PushToolUse(_, _, _, _)

\* the loop of convertToolCallsToAnthropic from toolCalls[i]
ToolUseBlocksFrom(toolCalls, i, content) ==
    IF i > Len(toolCalls) THEN [ok |-> TRUE, value |-> content]
    ELSE PushToolUse(toolCalls, i, content, JSONparse(toolCalls[i].function.arguments))

\* one iteration of the loop, args being what JSON.parse(fn.arguments) gave: it
\* throws when JSON.parse did
PushToolUse(toolCalls, i, content, args) ==
    IF ~args.ok THEN [ok |-> FALSE, value |-> <<>>]
    ELSE ToolUseBlocksFrom(toolCalls, i + 1,
             Append(content, [type |-> "tool_use", id |-> toolCalls[i].id,
                              name |-> toolCalls[i].function.name, input |-> args.value]))

convertToolCallsToAnthropic(toolCalls) == ToolUseBlocksFrom(toolCalls, 1, <<>>)

\* Math.random().toString(36).substring(2, 15), on the text toString(36) gives
RandomSuffix(text) == Substring(text, 3, 15)

\* geminiToolCall with the args interpolated instead of serialized
geminiToolCallUnserialized(functionCall, text) ==
    [id |-> "call_" \o RandomSuffix(text),
     type |-> "function",
     function |-> [name |-> functionCall.name,
                   arguments |-> Str(TemplateString(functionCall.args))]]

\* the ToolCall pushed for a functionCall part, text being what
\* Math.random().toString(36) gave
geminiToolCall(functionCall, text) ==
    [id |-> "call_" \o RandomSuffix(text),
     type |-> "function",
     function |-> [name |-> functionCall.name,
                   arguments |-> JSONstringify(functionCall.args)]]

\* the `for (const part of content.parts)` loop from parts[i]: rnd are the
\* values Math.random() returns from here on; used counts those consumed
RECURSIVE PartsLoop(_, _, _, _, _, _)
PartsLoop(parts, i, rnd, used, textParts, toolCalls) ==
    IF i > Len(parts)
    THEN [textParts |-> textParts, toolCalls |-> toolCalls, used |-> used]
    ELSE LET part == parts[i]
         IN  IF Truthy(part.text)
             THEN PartsLoop(parts, i + 1, rnd, used, Append(textParts, part.text[2]), toolCalls)
             ELSE IF Truthy(part.functionCall)
             THEN PartsLoop(parts, i + 1, rnd, used + 1, textParts,
                      Append(toolCalls, geminiToolCall(part.functionCall[2], rnd[used + 1])))
             ELSE PartsLoop(parts, i + 1, rnd, used, textParts, toolCalls)

\* convertGeminiContent with tool_calls assigned the last call alone
convertGeminiContentLastCall(content, rnd, used) ==
    LET loop == PartsLoop(content.parts, 1, rnd, used, <<>>, <<>>)
        text == IF Len(loop.textParts) > 0 THEN Str(Join(loop.textParts, "\n")) ELSE Str("")
        role == IF content.role = "model" THEN "assistant" ELSE content.role
    IN  [used |-> loop.used,
         message |->
            IF Len(loop.toolCalls) > 0
            THEN [role |-> role,
                  content |-> IF ~Truthy(text) THEN NULL ELSE text,
                  tool_calls |-> Arr(<<loop.toolCalls[Len(loop.toolCalls)]>>)]
            ELSE [role |-> role, content |-> text]]

\* convertGeminiContent with the null content set outside `if (toolCalls.length > 0)`
convertGeminiContentNullText(content, rnd, used) ==
    LET loop == PartsLoop(content.parts, 1, rnd, used, <<>>, <<>>)
        text == IF Len(loop.textParts) > 0 THEN Str(Join(loop.textParts, "\n")) ELSE Str("")
        role == IF content.role = "model" THEN "assistant" ELSE content.role
    IN  [used |-> loop.used,
         message |->
            IF Len(loop.toolCalls) > 0
            THEN [role |-> role,
                  content |-> IF ~Truthy(text) THEN NULL ELSE text,
                  tool_calls |-> Arr(loop.toolCalls)]
            ELSE [role |-> role, content |-> IF ~Truthy(text) THEN NULL ELSE text]]

\* one iteration of `for (const content of geminiRequest.contents)`
convertGeminiContent(content, rnd, used) ==
    LET loop == PartsLoop(content.parts, 1, rnd, used, <<>>, <<>>)
        text == IF Len(loop.textParts) > 0 THEN Str(Join(loop.textParts, "\n")) ELSE Str("")
        role == IF content.role = "model" THEN "assistant" ELSE content.role
    IN  [used |-> loop.used,
         message |->
            IF Len(loop.toolCalls) > 0
            THEN [role |-> role,
                  content |-> IF ~Truthy(text) THEN NULL ELSE text,
                  tool_calls |-> Arr(loop.toolCalls)]
            ELSE [role |-> role, content |-> text]]

RECURSIVE ContentsLoop(_, _, _, _, _)
ContentsLoop(contents, i, rnd, used, messages) ==
    IF i > Len(contents) THEN messages
    ELSE LET c == convertGeminiContent(contents[i], rnd, used)
         IN  ContentsLoop(contents, i + 1, rnd, c.used, Append(messages, c.message))

\* geminiRequest.tools.flatMap(tool => tool.function_declarations.map(...))
RECURSIVE FlattenDeclarations(_)
FlattenDeclarations(tools) ==
    IF tools = <<>> THEN <<>>
    ELSE [i \in 1..Len(Head(tools).function_declarations) |->
             [type |-> "function",
              function |-> [name |-> Head(tools).function_declarations[i].name,
                            description |-> Head(tools).function_declarations[i].description,
                            parameters |-> Head(tools).function_declarations[i].parameters]]]
         \o FlattenDeclarations(Tail(tools))

\* convertGeminiToOpenAI: throws when contents is not an array
convertGeminiToOpenAI(geminiRequest, rnd) ==
    IF TypeOf(geminiRequest.contents) # "array" THEN [ok |-> FALSE, value |-> <<>>]
    ELSE [ok |-> TRUE,
          value |->
            [messages |-> ContentsLoop(geminiRequest.contents[2], 1, rnd, 0, <<>>),
             tools |-> IF Truthy(geminiRequest.tools) /\ Len(geminiRequest.tools[2]) > 0
                       THEN Arr(FlattenDeclarations(geminiRequest.tools[2]))
                       ELSE UNDEF,
             max_tokens |-> IF Truthy(geminiRequest.generationConfig)
                            THEN geminiRequest.generationConfig[2].maxOutputTokens
                            ELSE UNDEF,
             temperature |-> IF Truthy(geminiRequest.generationConfig)
                             THEN geminiRequest.generationConfig[2].temperature
                             ELSE UNDEF]]

RECURSIVE FunctionCallParts(_, _, _), PushFunctionCall(_, _, _, _)

\* the `for (const toolCall of message.tool_calls)` loop of convertOpenAIToGemini
FunctionCallParts(toolCalls, i, parts) ==
    IF i > Len(toolCalls) THEN [ok |-> TRUE, value |-> parts]
    ELSE PushFunctionCall(toolCalls, i, parts, JSONparse(toolCalls[i].function.arguments))

\* one iteration of the loop, args being what JSON.parse(fn.arguments) gave
PushFunctionCall(toolCalls, i, parts, args) ==
    IF ~args.ok THEN [ok |-> FALSE, value |-> <<>>]
    ELSE FunctionCallParts(toolCalls, i + 1,
             Append(parts, [functionCall |-> [name |-> toolCalls[i].function.name,
                                              args |-> args.value]]))

\* the `parts` of convertOpenAIToGemini: the text part, then the function calls
geminiParts(message) ==
    IF Truthy(Prop(message, "tool_calls"))
    THEN FunctionCallParts(message.tool_calls[2], 1,
             IF Truthy(message.content) THEN <<[text |-> message.content[2]]>> ELSE <<>>)
    ELSE [ok |-> TRUE,
          value |-> IF Truthy(message.content) THEN <<[text |-> message.content[2]]>> ELSE <<>>]

\* the object convertOpenAIToGemini returns around its parts
geminiEnvelope(parts, choice, usage, originalModel) ==
    [ok |-> parts.ok,
     value |->
        [candidates |->
            <<[content |-> [parts |-> parts.value, role |-> "model"],
               finishReason |-> IF choice.finish_reason = "tool_calls" THEN "STOP"
                                ELSE IF choice.finish_reason = "length" THEN "MAX_TOKENS"
                                ELSE "STOP",
               index |-> 0]>>,
         usageMetadata |->
            [promptTokenCount |->
                IF Truthy(usage) THEN Or(usage[2].prompt_tokens, Num(0)) ELSE Num(0),
             candidatesTokenCount |->
                IF Truthy(usage) THEN Or(usage[2].completion_tokens, Num(0)) ELSE Num(0),
             totalTokenCount |->
                IF Truthy(usage) THEN Or(usage[2].total_tokens, Num(0)) ELSE Num(0)],
         modelVersion |-> originalModel]]

convertOpenAIToGemini(openaiResponse, originalModel) ==
    geminiEnvelope(geminiParts(openaiResponse.choices[1].message), openaiResponse.choices[1],
                   openaiResponse.usage, originalModel)

----------------------------------------------------------------------------
(* The inline steps of the two handlers *)

\* maxTokens without the Math.min
maxTokensUnclamped(requested, providerMaxTokens) == Or(requested, providerMaxTokens)

\* const maxTokens = Math.min(requested || provider.maxTokens, provider.maxTokens)
maxTokens(requested, providerMaxTokens) ==
    MathMin(Or(requested, providerMaxTokens), providerMaxTokens)

\* content and stopReason of the tool_use branch, content being what
\* convertToolCallsToAnthropic gave
toolUseContent(content) ==
    [ok |-> content.ok, content |-> content.value, stopReason |-> "tool_use"]

\* the `if (msg.tool_calls) ... else ...` of the Claude handler
claudeContent(msg) ==
    IF Truthy(Prop(msg, "tool_calls"))
    THEN toolUseContent(convertToolCallsToAnthropic(msg.tool_calls[2]))
    ELSE [ok |-> TRUE,
          content |-> <<[type |-> "text", text |-> Or(msg.content, Str(""))[2]]>>,
          stopReason |-> "end_turn"]

\* the response object of the Claude handler around its content c (the random
\* message id is left out)
claudeEnvelope(c, usage, prov, request) ==
    [ok |-> c.ok,
     value |->
        [model |-> prov.name[2] \o "/" \o request.model,
         role |-> "assistant",
         type |-> "message",
         content |-> c.content,
         stop_reason |-> c.stopReason,
         stop_sequence |-> NULL,
         usage |->
            [input_tokens |->
                IF Truthy(usage) THEN Or(usage[2].prompt_tokens, Num(0)) ELSE Num(0),
             output_tokens |->
                IF Truthy(usage) THEN Or(usage[2].completion_tokens, Num(0)) ELSE Num(0)]]]

claudeResponse(nonStreamCompletion, prov, request) ==
    claudeEnvelope(claudeContent(nonStreamCompletion.choices[1].message),
                   nonStreamCompletion.usage, prov, request)

\* Returned without the catch block: whatever had been built is sent
ReturnedUncaught(r, caught) == [status |-> 200, body |-> r.value]

\* c.json(response), or the catch block when the translation threw
Returned(r, caught) == IF r.ok THEN [status |-> 200, body |-> r.value] ELSE caught

claudeMissingKey ==
    [status |-> 401,
     body |-> [error |-> Str("Missing API key in Authorization header or x-api-key header")]]

claudeCatch == [status |-> 500, body |-> [error |-> Str("Internal server error")]]

geminiMissingKey ==
    [status |-> 401,
     body |-> [error |-> Str("Missing API key in Authorization header or x-goog-api-key header")]]

geminiCatch ==
    [status |-> 500,
     body |-> [error |-> Obj([code |-> 500, message |-> "Internal server error",
                              status |-> "INTERNAL"])]]

----------------------------------------------------------------------------
(* The requests, environments and upstream answers the model draws from *)

MaxBlocks == 2      \* blocks in one Claude message
MaxMessages == 2    \* messages in one Claude request
MaxParts == 2       \* parts in one Gemini content entry
MaxContents == 2    \* content entries in one Gemini request

SeqsUpTo(S, n) == UNION {[1..k -> S] : k \in 0..n}
SeqsBetween(S, m, n) == UNION {[1..k -> S] : k \in m..n}

None == <<"none">>

DefaultEnv ==
    [TARGET_MODEL |-> UNDEF, TARGET_PROVIDER |-> UNDEF, TARGET_BASE_URL |-> UNDEF,
     TARGET_MAX_TOKENS |-> UNDEF]

MaxTokensInputs ==
    {UNDEF, Str(""), Str("16384"), Str("100"), Str("abc"), Str("-5"), Str("0"), Str("12px")}

EnvInputs ==
    {[DefaultEnv EXCEPT !.TARGET_MAX_TOKENS = v] : v \in MaxTokensInputs}
    \cup {[TARGET_MODEL |-> m, TARGET_PROVIDER |-> p, TARGET_BASE_URL |-> u,
           TARGET_MAX_TOKENS |-> UNDEF] :
            m \in {UNDEF, Str(""), Str("gpt-4o")},
            p \in {UNDEF, Str(""), Str("openai")},
            u \in {UNDEF, Str(""), Str("https://api.openai.com/v1")}}

ValidHeaders ==
    [Authorization |-> Str("Bearer sk-1"), xApiKey |-> UNDEF, xGoogApiKey |-> UNDEF]

HeaderInputs ==
    {[Authorization |-> a, xApiKey |-> k, xGoogApiKey |-> g] :
        a \in {UNDEF, Str(""), Str("Bearer "), Str("Bearer sk-1"), Str("sk-2")},
        k \in {UNDEF, Str(""), Str("Bearer "), Str("key-3")},
        g \in {UNDEF, Str(""), Str("Bearer "), Str("key-4")}}

RequestedTokens ==
    {UNDEF, NULL, Num(0), Num(1), Num(1000), Num(16384), Num(16385), Num(20000), Num(-1)}

WeatherArgs == Obj(<< <<"location", Str("NYC")>> >>)
NestedArgs == Obj(<< <<"x", Num(1)>>, <<"q", Arr(<<Str("a\"b"), NULL, Num(-12)>>)>> >>)

ClaudeBlocks ==
    { [type |-> "text", text |-> "hi"],
      [type |-> "text", text |-> ""],
      [type |-> "tool_use", id |-> "tu1", name |-> "get_weather", input |-> WeatherArgs],
      [type |-> "tool_result", tool_use_id |-> "t1", content |-> Obj(<< <<"ok", Bool(TRUE)>> >>)],
      [type |-> "tool_result", tool_use_id |-> "t2", content |-> Str("line\n2")] }

ClaudeContents == {Str(""), Str("hi")} \cup {Arr(b) : b \in SeqsUpTo(ClaudeBlocks, MaxBlocks)}

ClaudeMessageInputs == {[role |-> r, content |-> c] : r \in {"user", "assistant"}, c \in ClaudeContents}

ClaudeTurns ==
    { [role |-> "user", content |-> Str("hi")],
      [role |-> "assistant", content |-> Arr(<<[type |-> "text", text |-> "ok"],
          [type |-> "tool_use", id |-> "tu1", name |-> "get_weather", input |-> WeatherArgs]>>)],
      [role |-> "user", content |-> Arr(<<[type |-> "tool_result", tool_use_id |-> "tu1",
                                          content |-> Num(21)]>>)] }

ClaudeTool ==
    [name |-> "get_weather", description |-> UNDEF, input_schema |-> Obj(<< <<"type", Str("object")>> >>)]

ClaudeRequest(messages, requested, tools) ==
    [valid |-> TRUE,
     value |-> [model |-> "claude-3-5-sonnet", messages |-> messages, max_tokens |-> requested,
                temperature |-> UNDEF, tools |-> tools, tool_choice |-> UNDEF]]

\* a body c.req.json() rejects
InvalidBody == [valid |-> FALSE, value |-> [raw |-> "{oops"]]

ClaudeBodies ==
    {ClaudeRequest(Arr(m), UNDEF, UNDEF) : m \in SeqsUpTo(ClaudeMessageInputs, 1)}
    \cup {ClaudeRequest(Arr(m), Num(1000), Arr(<<ClaudeTool>>)) : m \in SeqsBetween(ClaudeTurns, 2, MaxMessages)}
    \cup {ClaudeRequest(UNDEF, UNDEF, UNDEF), InvalidBody}

\* request.model: a Claude model name, and the name of a target model
ClaudeModels == {"claude-3-5-sonnet", "gpt-4o"}

DefaultClaudeBody == ClaudeRequest(Arr(<<[role |-> "user", content |-> Str("hi")]>>), UNDEF, UNDEF)

FunctionCall(name, args) == Obj([name |-> name, args |-> args])

GeminiPartInputs ==
    { [text |-> Str("hi"), functionCall |-> UNDEF],
      [text |-> Str(""), functionCall |-> UNDEF],
      [text |-> UNDEF, functionCall |-> FunctionCall("get_weather", WeatherArgs)],
      [text |-> UNDEF, functionCall |-> FunctionCall("f", NestedArgs)],
      [text |-> Str("t"), functionCall |-> FunctionCall("f", Obj(<<>>))],
      [text |-> UNDEF, functionCall |-> UNDEF] }

GeminiContentInputs ==
    {[role |-> r, parts |-> p] : r \in {"user", "model"}, p \in SeqsUpTo(GeminiPartInputs, MaxParts)}

GeminiTurns ==
    { [role |-> "user", parts |-> <<[text |-> Str("hi"), functionCall |-> UNDEF]>>],
      [role |-> "model", parts |-> <<[text |-> Str("hello"), functionCall |-> UNDEF]>>],
      [role |-> "model", parts |-> <<[text |-> UNDEF,
                                      functionCall |-> FunctionCall("get_weather", WeatherArgs)]>>] }

GeminiDeclarations ==
    Arr(<<[function_declarations |->
            <<[name |-> "get_weather", description |-> "weather", parameters |-> Obj(<<>>)]>>]>>)

GeminiRequest(contents, requested, tools) ==
    [valid |-> TRUE,
     value |-> [contents |-> contents,
                generationConfig |->
                    IF requested = UNDEF THEN UNDEF
                    ELSE Obj([maxOutputTokens |-> requested, temperature |-> UNDEF]),
                tools |-> tools]]

GeminiBodies ==
    {GeminiRequest(Arr(c), UNDEF, UNDEF) : c \in SeqsUpTo(GeminiContentInputs, 1)}
    \cup {GeminiRequest(Arr(c), Num(1000), GeminiDeclarations) : c \in SeqsBetween(GeminiTurns, 2, MaxContents)}
    \cup {GeminiRequest(UNDEF, UNDEF, UNDEF), InvalidBody}

DefaultGeminiBody ==
    GeminiRequest(Arr(<<[role |-> "user", parts |-> <<[text |-> Str("hi"), functionCall |-> UNDEF]>>]>>),
                  UNDEF, UNDEF)

\* what Math.random().toString(36) can give: two ordinary values and that of 0
RandomTexts == {"0.4fzyo82mvyr", "0.lrx9s1oacbh", "0"}

\* the parts of a body that carry a functionCall: no more Math.random() calls are made
RECURSIVE CountFunctionCalls(_)
CountFunctionCalls(contents) ==
    IF contents = <<>> THEN 0
    ELSE Cardinality({i \in 1..Len(Head(contents).parts) : Head(contents).parts[i].functionCall # UNDEF})
         + CountFunctionCalls(Tail(contents))

RandomInputs(b) ==
    IF b.valid /\ "contents" \in DOMAIN b.value /\ TypeOf(b.value.contents) = "array"
    THEN [1..CountFunctionCalls(b.value.contents[2]) -> RandomTexts]
    ELSE {<<>>}

Requests ==
    \* every combination of credential headers, on both paths
    {[path |-> "claude", env |-> DefaultEnv, headers |-> h, body |-> DefaultClaudeBody] : h \in HeaderInputs}
    \cup {[path |-> "gemini", env |-> DefaultEnv, headers |-> h, body |-> DefaultGeminiBody] : h \in HeaderInputs}
    \* every environment with every requested token count, on both paths
    \cup {[path |-> "claude", env |-> e, headers |-> ValidHeaders,
           body |-> ClaudeRequest(DefaultClaudeBody.value.messages, r, UNDEF)] :
            e \in EnvInputs, r \in RequestedTokens}
    \cup {[path |-> "gemini", env |-> e, headers |-> ValidHeaders,
           body |-> GeminiRequest(DefaultGeminiBody.value.contents, r, UNDEF)] :
            e \in EnvInputs, r \in RequestedTokens}
    \* every environment with every requested model name, on the Claude path
    \cup {[path |-> "claude", env |-> e, headers |-> ValidHeaders,
           body |-> [DefaultClaudeBody EXCEPT !.value.model = m]] :
            e \in EnvInputs, m \in ClaudeModels}
    \* every body
    \cup {[path |-> "claude", env |-> DefaultEnv, headers |-> ValidHeaders, body |-> b] : b \in ClaudeBodies}
    \cup {[path |-> "gemini", env |-> DefaultEnv, headers |-> ValidHeaders, body |-> b] : b \in GeminiBodies}

ToolCallC1 ==
    [id |-> "c1", type |-> "function",
     function |-> [name |-> "get_weather", arguments |-> Str("{\"location\":\"NYC\"}")]]
ToolCallC2 ==
    [id |-> "c2", type |-> "function",
     function |-> [name |-> "f", arguments |-> Str(" { \"x\" : [ 1 , null ] } ")]]
ToolCallBad ==
    [id |-> "c3", type |-> "function", function |-> [name |-> "f", arguments |-> Str("{oops")]]

Usage == Obj([prompt_tokens |-> Num(7), completion_tokens |-> Num(0), total_tokens |-> UNDEF])

Completion(message, finish, usage) ==
    [rejected |-> FALSE,
     choices |-> <<[message |-> message, finish_reason |-> finish]>>,
     usage |-> usage]

Rejected == [rejected |-> TRUE, choices |-> <<>>, usage |-> UNDEF]

CompletionInputs ==
    {Completion([role |-> "assistant", content |-> c, tool_calls |-> tc], "stop", UNDEF) :
        c \in {NULL, Str(""), Str("ok")},
        tc \in {Arr(<<>>), Arr(<<ToolCallC1>>), Arr(<<ToolCallC2, ToolCallC1>>),
                Arr(<<ToolCallC1, ToolCallBad>>)}}
    \cup {Completion([role |-> "assistant", content |-> c], f, u) :
            c \in {NULL, Str(""), Str("ok")}, f \in {"stop", "length", "tool_calls"},
            u \in {UNDEF, Usage}}
    \cup {Rejected}

\* an upstream that answers with one of the messages it was sent
EchoCompletions(messages) ==
    {Completion(messages[i], "tool_calls", UNDEF) : i \in 1..Len(messages)}

----------------------------------------------------------------------------
(* The state machine *)

NoResponse == [status |-> 0, body |-> [pending |-> TRUE]]
NoCompletion == [rejected |-> FALSE, choices |-> <<>>, usage |-> UNDEF]
NoUpstream == [sent |-> FALSE]

Init ==
    /\ env = DefaultEnv
    /\ pc = "idle"
    /\ path = "claude"
    /\ headers = ValidHeaders
    /\ body = InvalidBody
    /\ random = <<>>
    /\ apiKey = NULL
    /\ provider = None
    /\ targetConfig = None
    /\ upstream = NoUpstream
    /\ completion = NoCompletion
    /\ response = NoResponse
    /\ calls = <<>>

\* a request arrives and its handler is entered
Receive ==
    /\ pc = "idle"
    /\ \E req \in Requests : \E rnd \in RandomInputs(req.body) :
        /\ path' = req.path
        /\ env' = req.env
        /\ headers' = req.headers
        /\ body' = req.body
        /\ random' = rnd
    /\ pc' = "received"
    /\ apiKey' = NULL
    /\ provider' = None
    /\ targetConfig' = None
    /\ upstream' = NoUpstream
    /\ completion' = NoCompletion
    /\ response' = NoResponse
    /\ calls' = <<>>

\* Claude handler up to `await c.req.json()`
ClaudeStart ==
    /\ pc = "received" /\ path = "claude"
    /\ LET authorization == Or(headers.Authorization, headers.xApiKey)
           key == extractApiKey(authorization)
       IN  /\ apiKey' = key
           /\ IF ~Truthy(key)
              THEN response' = claudeMissingKey /\ pc' = "done"
              ELSE response' = response /\ pc' = "reading"
    /\ UNCHANGED <<env, path, headers, body, random, provider, targetConfig, upstream,
                   completion, calls>>

\* Claude handler from the body to `await client.chat.completions.create(...)`
ClaudeTranslate ==
    /\ pc = "reading" /\ path = "claude"
    /\ IF ~body.valid
       THEN /\ response' = claudeCatch /\ pc' = "done"
            /\ UNCHANGED <<provider, targetConfig, upstream, calls>>
       ELSE /\ provider' = createProvider(env)
            /\ targetConfig' = getTargetConfig(env)
            /\ calls' = calls
                    \o <<"convertMessages">>
                    \o (IF TypeOf(body.value.messages) = "array" /\ Truthy(body.value.tools)
                        THEN <<"convertTools">> ELSE <<>>)
                    \o (IF TypeOf(body.value.messages) = "array" THEN <<"create">> ELSE <<>>)
            /\ IF ~convertMessages(body.value.messages).ok
               THEN response' = claudeCatch /\ pc' = "done" /\ UNCHANGED upstream
               ELSE /\ upstream' =
                        [sent |-> TRUE,
                         apiKey |-> apiKey,
                         baseURL |-> provider'.baseURL,
                         model |-> targetConfig'.model,
                         messages |-> convertMessages(body.value.messages).value,
                         temperature |-> body.value.temperature,
                         max_tokens |-> maxTokens(body.value.max_tokens, provider'.maxTokens),
                         tools |-> IF Truthy(body.value.tools)
                                   THEN Arr(convertTools(body.value.tools[2])) ELSE UNDEF,
                         tool_choice |-> body.value.tool_choice,
                         stream |-> FALSE]
                    /\ pc' = "awaiting"
                    /\ UNCHANGED response
    /\ UNCHANGED <<env, path, headers, body, random, apiKey, completion>>

\* Claude handler from the upstream's answer to its return
ClaudeComplete ==
    /\ pc = "awaiting" /\ path = "claude"
    /\ \E c \in CompletionInputs :
        /\ completion' = c
        /\ IF c.rejected
           THEN response' = claudeCatch /\ UNCHANGED calls
           ELSE /\ calls' = Append(calls, "claudeResponse")
                /\ response' = Returned(claudeResponse(c, provider, body.value),
                                        claudeCatch)
    /\ pc' = "done"
    /\ UNCHANGED <<env, path, headers, body, random, apiKey, provider, targetConfig, upstream>>

\* Gemini handler up to `await c.req.json()`
GeminiStart ==
    /\ pc = "received" /\ path = "gemini"
    /\ LET authorization == Or(headers.Authorization, headers.xGoogApiKey)
           key == extractApiKey(authorization)
       IN  /\ apiKey' = key
           /\ IF ~Truthy(key)
              THEN response' = geminiMissingKey /\ pc' = "done"
              ELSE response' = response /\ pc' = "reading"
    /\ UNCHANGED <<env, path, headers, body, random, provider, targetConfig, upstream,
                   completion, calls>>

\* the :model parameter of the route
GeminiModel == "gemini-1.5-pro"

\* Gemini handler from the body to `await client.chat.completions.create(...)`
GeminiTranslate ==
    /\ pc = "reading" /\ path = "gemini"
    /\ IF ~body.valid
       THEN /\ response' = geminiCatch /\ pc' = "done"
            /\ UNCHANGED <<provider, targetConfig, upstream, calls>>
       ELSE /\ provider' = createProvider(env)
            /\ targetConfig' = getTargetConfig(env)
            /\ calls' = calls
                    \o <<"convertGeminiToOpenAI">>
                    \o (IF TypeOf(body.value.contents) = "array" THEN <<"create">> ELSE <<>>)
            /\ IF ~convertGeminiToOpenAI(body.value, random).ok
               THEN response' = geminiCatch /\ pc' = "done" /\ UNCHANGED upstream
               ELSE /\ upstream' =
                        [sent |-> TRUE,
                         apiKey |-> apiKey,
                         baseURL |-> provider'.baseURL,
                         model |-> targetConfig'.model,
                         messages |-> convertGeminiToOpenAI(body.value, random).value.messages,
                         temperature |-> convertGeminiToOpenAI(body.value, random).value.temperature,
                         max_tokens |->
                            maxTokens(convertGeminiToOpenAI(body.value, random).value.max_tokens,
                                      provider'.maxTokens),
                         tools |-> convertGeminiToOpenAI(body.value, random).value.tools,
                         tool_choice |-> Str("auto"),
                         stream |-> FALSE]
                    /\ pc' = "awaiting"
                    /\ UNCHANGED response
    /\ UNCHANGED <<env, path, headers, body, random, apiKey, completion>>

\* Gemini handler from the upstream's answer to its return
GeminiComplete ==
    /\ pc = "awaiting" /\ path = "gemini"
    /\ \E c \in CompletionInputs \cup EchoCompletions(upstream.messages) :
        /\ completion' = c
        /\ IF c.rejected
           THEN response' = geminiCatch /\ UNCHANGED calls
           ELSE /\ calls' = Append(calls, "convertOpenAIToGemini")
                /\ response' = Returned(convertOpenAIToGemini(c, GeminiModel), geminiCatch)
    /\ pc' = "done"
    /\ UNCHANGED <<env, path, headers, body, random, apiKey, provider, targetConfig, upstream>>

\* the response is delivered and everything of the request is discarded
Deliver ==
    /\ pc = "done"
    /\ pc' = "idle"
    /\ env' = DefaultEnv
    /\ path' = "claude"
    /\ headers' = ValidHeaders
    /\ body' = InvalidBody
    /\ random' = <<>>
    /\ apiKey' = NULL
    /\ provider' = None
    /\ targetConfig' = None
    /\ upstream' = NoUpstream
    /\ completion' = NoCompletion
    /\ response' = NoResponse
    /\ calls' = <<>>

Next ==
    \/ Receive
    \/ Deliver
    \/ ClaudeStart
    \/ ClaudeTranslate
    \/ ClaudeComplete
    \/ GeminiStart
    \/ GeminiTranslate
    \/ GeminiComplete

Spec == Init /\ [][Next]_vars

----------------------------------------------------------------------------
(* Properties *)

\* a header value that yields no non-empty key: absent, empty, or only the prefix
NoKey(h) == TypeOf(h) = "undefined" \/ h = Str("") \/ h = Str("Bearer ")

\* the request being handled carries no credential for its path
CredentialMissing ==
    /\ pc # "idle"
    /\ NoKey(headers.Authorization)
    /\ NoKey(IF path = "claude" THEN headers.xApiKey ELSE headers.xGoogApiKey)

\* C1: on both paths, while a request whose credential is missing is handled,
\* no request translator, upstream call or response translator is ever invoked,
\* and the handler ends it with status 401.
C1_MissingCredentialRejected ==
    CredentialMissing =>
        /\ calls = <<>>
        /\ ~upstream.sent
        /\ completion = NoCompletion
        /\ pc \in {"received", "done"}
        /\ pc = "done" => response.status = 401

C1_Witness ==
    /\ CredentialMissing
    /\ pc = "done"
    /\ path = "gemini"
    /\ headers.Authorization = Str("Bearer ")
    /\ response.status = 401

\* the requested token count of the request being handled
Requested ==
    IF path = "claude" THEN body.value.max_tokens
    ELSE IF Truthy(body.value.generationConfig)
    THEN body.value.generationConfig[2].maxOutputTokens
    ELSE UNDEF

Smaller(a, b) == IF a <= b THEN a ELSE b

\* C2 as stated: max_tokens sent upstream is min(requested if present else
\* ceiling, ceiling), for every numeric ceiling.
C2_Original ==
    (upstream.sent /\ TypeOf(provider.maxTokens) = "number") =>
        upstream.max_tokens =
            Num(Smaller(IF TypeOf(Requested) = "number" THEN Requested[2]
                        ELSE provider.maxTokens[2],
                        provider.maxTokens[2]))

\* C2 amended: max_tokens sent upstream is min(requested if it is a non-zero
\* number else ceiling, ceiling) and never exceeds the ceiling; with a ceiling
\* that is not a number it is NaN.
C2_ClampedMaxTokens ==
    upstream.sent =>
        IF TypeOf(provider.maxTokens) # "number" THEN upstream.max_tokens = NaN
        ELSE /\ TypeOf(upstream.max_tokens) = "number"
             /\ upstream.max_tokens[2] <= provider.maxTokens[2]
             /\ upstream.max_tokens[2] =
                    Smaller(IF TypeOf(Requested) = "number" /\ Requested[2] # 0
                            THEN Requested[2] ELSE provider.maxTokens[2],
                            provider.maxTokens[2])

C2_Witness ==
    /\ upstream.sent
    /\ path = "gemini"
    /\ Requested = Num(20000)
    /\ provider.maxTokens = Num(16384)
    /\ upstream.max_tokens = Num(16384)

\* the message of the upstream's answer, and its tool calls when it has any
AnswerMessage == completion.choices[1].message
AnswerHasToolCalls ==
    /\ TypeOf(Prop(AnswerMessage, "tool_calls")) = "array"
    /\ Len(AnswerMessage.tool_calls[2]) > 0

\* C3: the Claude response has stop_reason "tool_use" and one ToolUseBlock per
\* call, in order, exactly when the answer's tool_calls is present and
\* non-empty; otherwise it is one TextBlock of message.content or "" with
\* stop_reason "end_turn".
C3_ToolUseIffNonEmpty ==
    (pc = "done" /\ path = "claude" /\ upstream.sent /\ ~completion.rejected) =>
        IF AnswerHasToolCalls
        THEN response.status = 200 =>
                /\ response.body.stop_reason = "tool_use"
                /\ Len(response.body.content) = Len(AnswerMessage.tool_calls[2])
                /\ \A i \in 1..Len(response.body.content) :
                    response.body.content[i] =
                        [type |-> "tool_use",
                         id |-> AnswerMessage.tool_calls[2][i].id,
                         name |-> AnswerMessage.tool_calls[2][i].function.name,
                         input |-> JSONparse(AnswerMessage.tool_calls[2][i].function.arguments).value]
        ELSE /\ response.status = 200
             /\ response.body.stop_reason = "end_turn"
             /\ response.body.content =
                    <<[type |-> "text",
                       text |-> IF TypeOf(AnswerMessage.content) = "string"
                                THEN AnswerMessage.content[2] ELSE ""]>>

\* C4: every failure response has its protocol's shape: {error: string} on the
\* Claude path, {error: {code, message, status}} on the Gemini path.
C4_ProtocolShapedErrors ==
    (pc = "done" /\ response.status # 200) =>
        IF path = "claude"
        THEN DOMAIN response.body = {"error"} /\ TypeOf(response.body.error) = "string"
        ELSE /\ DOMAIN response.body = {"error"}
             /\ TypeOf(response.body.error) = "object"
             /\ DOMAIN response.body.error[2] = {"code", "message", "status"}

\* the Gemini content entry and the message translated from it
Entry(i) == body.value.contents[2][i]
ToolCallsOf(m) == IF TypeOf(Prop(m, "tool_calls")) = "array" THEN m.tool_calls[2] ELSE <<>>

CarriesFunctionCall(p) == TypeOf(p.functionCall) = "object"
CarriesText(p) == TypeOf(p.text) = "string" /\ p.text[2] # ""
\* a part of the functionCall variant: a functionCall and no text of its own
IsFunctionCallPart(p) == CarriesFunctionCall(p) /\ ~CarriesText(p)
HasFunctionCall(p) == "functionCall" \in DOMAIN p

\* the {name, args} of the parts selected, in order
CallsOf(selected) ==
    [k \in 1..Len(selected) |->
        [name |-> selected[k].functionCall[2].name, args |-> selected[k].functionCall[2].args]]

\* the {name, args} of the FunctionCallParts of a Gemini response, in order
CallsOfResponse(parts) ==
    [k \in 1..Len(SelectSeq(parts, HasFunctionCall)) |->
        SelectSeq(parts, HasFunctionCall)[k].functionCall]

\* C5: the tool calls convertGeminiToOpenAI makes of a content entry, answered
\* back by the upstream and put through convertOpenAIToGemini, give
\* FunctionCallParts with the names and args of the entry's functionCall parts,
\* in the same order.
C5_GeminiRoundTrip ==
    (pc = "done" /\ path = "gemini" /\ upstream.sent /\ ~completion.rejected) =>
        \A i \in 1..Len(upstream.messages) :
            AnswerMessage = upstream.messages[i] =>
                /\ response.status = 200
                /\ CallsOfResponse(response.body.candidates[1].content.parts)
                     = CallsOf(SelectSeq(Entry(i).parts, IsFunctionCallPart))

C5_Witness ==
    /\ pc = "done" /\ path = "gemini" /\ upstream.sent /\ ~completion.rejected
    /\ Len(upstream.messages) = 1
    /\ AnswerMessage = upstream.messages[1]
    /\ response.status = 200
    /\ CallsOfResponse(response.body.candidates[1].content.parts)
         = <<[name |-> "f", args |-> NestedArgs], [name |-> "get_weather", args |-> WeatherArgs]>>

\* the strings joined with newline, from the left
RECURSIVE Lines(_, _)
Lines(texts, k) ==
    IF k = 0 THEN ""
    ELSE IF k = 1 THEN texts[1]
    ELSE Lines(texts, k - 1) \o "\n" \o texts[k]

TextsOf(selected) == [k \in 1..Len(selected) |-> selected[k].text[2]]

\* the tool calls of message m are those of the parts selected, one each, in order
CallsMatch(m, selected) ==
    /\ Len(ToolCallsOf(m)) = Len(selected)
    /\ \A k \in 1..Len(selected) :
        /\ ToolCallsOf(m)[k].type = "function"
        /\ ToolCallsOf(m)[k].function.name = selected[k].functionCall[2].name
        /\ JSONparse(ToolCallsOf(m)[k].function.arguments)
             = [ok |-> TRUE, value |-> selected[k].functionCall[2].args]

\* the content of message m is the text of the parts selected, joined in order
TextMatches(m, selected) ==
    IF selected = <<>> THEN m.content \in {NULL, Str("")}
    ELSE m.content = Str(Lines(TextsOf(selected), Len(selected)))

\* C6 as stated: every part carrying a functionCall, one that also carries text
\* included, becomes one ToolCall of its entry's message, in order, and the
\* text parts are joined with newline into content.
C6_Original ==
    (upstream.sent /\ path = "gemini") =>
        \A i \in 1..Len(upstream.messages) :
            /\ CallsMatch(upstream.messages[i], SelectSeq(Entry(i).parts, CarriesFunctionCall))
            /\ TextMatches(upstream.messages[i], SelectSeq(Entry(i).parts, CarriesText))

\* C6 amended: every part carrying a functionCall and no non-empty text becomes
\* one ToolCall of its entry's message, in order; a part with non-empty text
\* gives its text alone, and these texts are joined with newline into content.
C6_FunctionCallParts ==
    (upstream.sent /\ path = "gemini") =>
        /\ Len(upstream.messages) = Len(body.value.contents[2])
        /\ \A i \in 1..Len(upstream.messages) :
            /\ CallsMatch(upstream.messages[i], SelectSeq(Entry(i).parts, IsFunctionCallPart))
            /\ TextMatches(upstream.messages[i], SelectSeq(Entry(i).parts, CarriesText))

C6_Witness ==
    /\ upstream.sent /\ path = "gemini"
    /\ Len(upstream.messages) = 1
    /\ Len(Entry(1).parts) = 2
    /\ CarriesText(Entry(1).parts[1]) /\ CarriesFunctionCall(Entry(1).parts[1])
    /\ IsFunctionCallPart(Entry(1).parts[2])
    /\ Len(ToolCallsOf(upstream.messages[1])) = 1
    /\ upstream.messages[1].content = Str("t")

\* C7: every message sent upstream has a string content, or a null content
\* together with a non-empty tool_calls made of an entry without text; none
\* carries an empty tool_calls.
C7_MessageShape ==
    upstream.sent =>
        \A i \in 1..Len(upstream.messages) :
            /\ "tool_calls" \in DOMAIN upstream.messages[i] =>
                /\ TypeOf(upstream.messages[i].tool_calls) = "array"
                /\ Len(upstream.messages[i].tool_calls[2]) > 0
            /\ IF upstream.messages[i].content = NULL
               THEN /\ Len(ToolCallsOf(upstream.messages[i])) > 0
                    /\ path = "gemini"
                    /\ SelectSeq(Entry(i).parts, CarriesText) = <<>>
               ELSE TypeOf(upstream.messages[i].content) = "string"

C7_Witness ==
    /\ upstream.sent /\ path = "gemini"
    /\ Len(upstream.messages) = 1
    /\ Len(Entry(1).parts) = 2
    /\ Entry(1).parts[1].text = Str("")
    /\ upstream.messages[1].content = NULL
    /\ Len(ToolCallsOf(upstream.messages[1])) = 1

\* C8: no two tool calls of one translated Gemini request carry the same id.
C8_DistinctIds ==
    (upstream.sent /\ path = "gemini") =>
        \A i, j \in 1..Len(upstream.messages) :
            \A k \in 1..Len(ToolCallsOf(upstream.messages[i])) :
                \A l \in 1..Len(ToolCallsOf(upstream.messages[j])) :
                    (i # j \/ k # l) =>
                        ToolCallsOf(upstream.messages[i])[k].id
                            # ToolCallsOf(upstream.messages[j])[l].id

Unset(v) == v \in {UNDEF, Str("")}

\* C9: a resolved configuration has the default of every input that is absent
\* or empty, and its maxTokens is a positive integer (an input that is not a
\* positive number gives a configuration error, never a configuration).
C9_ConfigResolution ==
    upstream.sent =>
        /\ Unset(env.TARGET_MODEL) => targetConfig.model = Str("moonshotai/kimi-k2-instruct")
        /\ Unset(env.TARGET_PROVIDER) => targetConfig.provider = Str("groq")
        /\ Unset(env.TARGET_BASE_URL) =>
                targetConfig.baseURL = Str("https://api.groq.com/openai/v1")
        /\ Unset(env.TARGET_MAX_TOKENS) => targetConfig.maxTokens = Num(16384)
        /\ TypeOf(targetConfig.maxTokens) = "number"
        /\ targetConfig.maxTokens[2] > 0
        /\ provider.maxTokens = targetConfig.maxTokens

\* the rendering of one Claude block
Rendering(b) ==
    CASE b.type = "text" -> b.text
      [] b.type = "tool_use" -> "[Tool Use: " \o b.name \o "] " \o JSONstringify(b.input)[2]
      [] b.type = "tool_result" ->
            "<tool_result>" \o JSONstringify(b.content)[2] \o "</tool_result>"

\* C10: convertMessages gives one message per Claude message, in order, with
\* its role; a string content unchanged, a block sequence as the renderings of
\* its blocks, all of them and in order, joined with newline.
C10_ConvertMessages ==
    (upstream.sent /\ path = "claude") =>
        /\ Len(upstream.messages) = Len(body.value.messages[2])
        /\ \A i \in 1..Len(upstream.messages) :
            /\ upstream.messages[i].role = body.value.messages[2][i].role
            /\ upstream.messages[i].content =
                IF TypeOf(body.value.messages[2][i].content) = "string"
                THEN body.value.messages[2][i].content
                ELSE Str(Lines([k \in 1..Len(body.value.messages[2][i].content[2]) |->
                                    Rendering(body.value.messages[2][i].content[2][k])],
                               Len(body.value.messages[2][i].content[2])))

C10_Witness ==
    /\ upstream.sent /\ path = "claude"
    /\ Len(body.value.messages[2]) = 1
    /\ TypeOf(body.value.messages[2][1].content) = "array"
    /\ Len(body.value.messages[2][1].content[2]) = 2
    /\ body.value.messages[2][1].content[2][2].type = "tool_result"
    /\ upstream.messages[1].content
         = Str("[Tool Use: get_weather] {\"location\":\"NYC\"}\n<tool_result>{\"ok\":true}</tool_result>")

----------------------------------------------------------------------------
(* The reported model name *)

\* C11: the model name of the Claude response envelope is
\* "<provider name>/<model>", <model> being the target model that was sent
\* upstream, whatever model name the caller requested.
C11_ReportedModel ==
    (pc = "done" /\ path = "claude" /\ upstream.sent /\ response.status = 200) =>
        response.body.model = provider.name[2] \o "/" \o upstream.model[2]

----------------------------------------------------------------------------
(* The order of the steps of one request *)

RequestTranslators == {"convertMessages", "convertTools", "convertGeminiToOpenAI"}
ResponseTranslators == {"claudeResponse", "convertOpenAIToGemini"}

Count(S) == Cardinality({i \in DOMAIN calls : calls[i] \in S})

\* the upstream's answer carries a tool call whose arguments are not JSON
ArgumentsFailToParse ==
    /\ completion.choices # <<>>
    /\ TypeOf(Prop(AnswerMessage, "tool_calls")) = "array"
    /\ \E i \in 1..Len(AnswerMessage.tool_calls[2]) :
            ~JSONparse(AnswerMessage.tool_calls[2][i].function.arguments).ok

CatchOf(p) == IF p = "claude" THEN claudeCatch ELSE geminiCatch

\* the tool_use blocks (Claude) or functionCall parts (Gemini) of a 200 body
TranslatedCalls ==
    IF path = "claude"
    THEN Cardinality({i \in 1..Len(response.body.content) :
                        response.body.content[i].type = "tool_use"})
    ELSE Cardinality({i \in 1..Len(response.body.candidates[1].content.parts) :
                        "functionCall" \in DOMAIN response.body.candidates[1].content.parts[i]})

\* C12: in the handling of one request the upstream call is made at most once
\* and only after the request translation; the response translator runs only
\* after that call returned successfully; when the call fails or a tool call's
\* arguments are not JSON the request ends with the error response, and a 200
\* body always carries every tool call of the answer.
C12_OrderedSteps ==
    /\ Count({"create"}) <= 1
    /\ upstream.sent <=> Count({"create"}) = 1
    /\ Count(ResponseTranslators) <= 1
    /\ \A i \in DOMAIN calls :
        /\ calls[i] = "create" =>
              /\ \A j \in DOMAIN calls : calls[j] \in RequestTranslators => j < i
              /\ \E j \in 1..(i - 1) :
                    calls[j] = IF path = "claude" THEN "convertMessages"
                               ELSE "convertGeminiToOpenAI"
        /\ calls[i] \in ResponseTranslators =>
              /\ \E j \in 1..(i - 1) : calls[j] = "create"
              /\ completion # NoCompletion /\ ~completion.rejected
              /\ pc = "done"
    /\ pc \in {"idle", "received", "reading", "awaiting"} =>
          completion = NoCompletion /\ response = NoResponse
    /\ (pc = "done" /\ upstream.sent /\ (completion.rejected \/ ArgumentsFailToParse)) =>
          response = CatchOf(path)
    /\ (pc = "done" /\ response.status = 200) =>
          /\ upstream.sent /\ ~completion.rejected /\ ~ArgumentsFailToParse
          /\ Count(ResponseTranslators) = 1
          /\ TranslatedCalls = Len(ToolCallsOf(AnswerMessage))

\* the second tool call of the answer has arguments that are not JSON: the
\* request ended with the error response after one upstream call
C12_Witness ==
    /\ pc = "done" /\ upstream.sent /\ ~completion.rejected
    /\ ArgumentsFailToParse
    /\ Len(AnswerMessage.tool_calls[2]) = 2
    /\ calls \in {<<"convertMessages", "create", "claudeResponse">>,
                  <<"convertGeminiToOpenAI", "create", "convertOpenAIToGemini">>}
    /\ response = CatchOf(path)

====
